---- MODULE Spec2Model ----
(***************************************************************************)
(* Model of scripts/catalog_templates.py: one run of main() is a sequence  *)
(* of steps over the directory tree (fs), the process environment, the     *)
(* asset list, the diagnostic channel (stderr), the primary output         *)
(* channel (stdout) and the narrative file prompt_template.txt.  A second  *)
(* run starts from the tree the first run left behind.                     *)
(*                                                                         *)
(* Text that the renderer joins into lines is a sequence of fragments in   *)
(* which the fragment "\n" is a line break; names, paths and sources are   *)
(* strings built with \o exactly as the f-strings build them.              *)
(***************************************************************************)
EXTENDS Integers, Sequences, FiniteSets, TLC

VARIABLES
    fs,               \* directory path -> listing (sequence of entries)
    reverse,          \* the file system lists directories back to front
    shell_env,        \* environment the script is started with
    environ,          \* os.environ of the running process
    dotenv,           \* the .env file beside scripts/
    pc,               \* position in main()
    error,            \* the uncaught exception that ended the run, "" if none
    run,              \* number of the current run
    dirs, di, pdfs,   \* the directory list, the loop index, the PDFs left in dirs[di]
    raw,              \* catalog["assets"] as collected, before the dedup
    assets,           \* catalog["assets"] after the dedup (uniq_assets)
    built,            \* the deduplicated list of each run, as it left the dedup
    gemini_key,       \* result of ensure_api_key()
    ei,               \* index of the enrichment loop
    requests,         \* filenames describe_asset_with_gemini was called for
    stderr,           \* diagnostic channel
    stdout,           \* primary output channel
    prompt_template   \* what this run wrote to <root>/prompt_template.txt, NoFile
                      \* while it has written nothing (the file itself is in fs)

vars == <<fs, reverse, shell_env, environ, dotenv, pc, error, run, dirs, di, pdfs,
          raw, assets, built, gemini_key, ei, requests, stderr, stdout,
          prompt_template>>

(***************************************************************************)
(* Bounds of the model.                                                    *)
(***************************************************************************)
MaxPages == 2       \* pages of the PDF in the root
MaxRuns == 2        \* runs in succession over the same tree
MaxEnriched == 2    \* largest catalog explored with a resolvable credential

(***************************************************************************)
(* Python values.                                                          *)
(***************************************************************************)
None == -1                    \* None of an int-valued slot (width, height)
NoneStr == "<None>"           \* None of a str-valued slot
NoFile == <<"<not written>">> \* a file the run has not written

TruthyInt(x) == x # None /\ x # 0
TruthyStr(s) == s # NoneStr /\ s # ""
Or(a, b) == IF TruthyStr(a) THEN a ELSE b

RECURSIVE Reverse(_)
Reverse(s) == IF s = <<>> THEN <<>> ELSE Append(Reverse(Tail(s)), Head(s))

\* round(n / 1024): Python rounds half to even.
PyRoundDiv(n, d) ==
    LET q == n \div d
        r == n % d
    IN  IF 2 * r < d THEN q
        ELSE IF 2 * r > d THEN q + 1
        ELSE IF q % 2 = 0 THEN q ELSE q + 1

(***************************************************************************)
(* Directory entries and paths.                                            *)
(***************************************************************************)
Root == ""
Join(d, name) == IF d = Root THEN name ELSE d \o "/" \o name
Name(e) == e.stem \o e.ext

Lower(ext) ==
    CASE ext = ".PNG" -> ".png"
      [] ext = ".JPG" -> ".jpg"
      [] ext = ".JPEG" -> ".jpeg"
      [] ext = ".WEBP" -> ".webp"
      [] ext = ".PDF" -> ".pdf"
      [] ext = ".TXT" -> ".txt"
      [] OTHER -> ext

Upper(ext) ==
    CASE ext = ".png" -> ".PNG"
      [] ext = ".jpg" -> ".JPG"
      [] ext = ".jpeg" -> ".JPEG"
      [] ext = ".webp" -> ".WEBP"
      [] ext = ".pdf" -> ".PDF"
      [] ext = ".txt" -> ".TXT"
      [] OTHER -> ext

LStripDot(ext) ==
    CASE ext = ".png" -> "png"
      [] ext = ".jpg" -> "jpg"
      [] ext = ".jpeg" -> "jpeg"
      [] ext = ".webp" -> "webp"
      [] ext = ".PNG" -> "PNG"
      [] ext = ".JPG" -> "JPG"
      [] ext = ".JPEG" -> "JPEG"
      [] ext = ".WEBP" -> "WEBP"
      [] OTHER -> ext

SUPPORTED_IMG == {".png", ".jpg", ".jpeg", ".webp"}

\* An image file; ok = FALSE when PIL cannot decode it.
ImageFile(stem, ext, ok, w, h, bytes) ==
    [stem |-> stem, ext |-> ext, kind |-> "file", ok |-> ok, w |-> w, h |-> h,
     bytes |-> bytes, pages |-> 0, badPage |-> 0, pngBytes |-> 0]

\* A PDF; ok = FALSE when fitz.open raises, badPage = n when rasterizing page n
\* raises; w, h are the pixmap's size at 300 dpi, pngBytes the size of a saved page.
PdfFile(stem, q, pages) ==
    [stem |-> stem, ext |-> ".pdf", kind |-> "file", ok |-> q # "unopenable",
     w |-> 2480, h |-> 3508, bytes |-> 20000, pages |-> pages,
     badPage |-> IF q = "badpage" THEN pages ELSE 0, pngBytes |-> 1536]

OtherFile(stem, ext) ==
    [stem |-> stem, ext |-> ext, kind |-> "file", ok |-> FALSE, w |-> None, h |-> None,
     bytes |-> 300, pages |-> 0, badPage |-> 0, pngBytes |-> 0]

Directory(stem, ext) ==
    [stem |-> stem, ext |-> ext, kind |-> "dir", ok |-> FALSE, w |-> None, h |-> None,
     bytes |-> 0, pages |-> 0, badPage |-> 0, pngBytes |-> 0]

\* Path.iterdir(): the listing in the file system's order.
IterDir(f, rev, d) == IF rev THEN Reverse(f[d]) ELSE f[d]

IsGlobPdf(e) == e.ext = ".pdf"
\* d.glob("*.pdf")
Glob(f, rev, d) == SelectSeq(IterDir(f, rev, d), IsGlobPdf)

Lookup(f, d, name) == {i \in 1..Len(f[d]) : Name(f[d][i]) = name}
Exists(f, d, name) == d \in DOMAIN f /\ Lookup(f, d, name) # {}
EntryAt(f, d, name) == f[d][CHOOSE i \in Lookup(f, d, name) : TRUE]

\* Create or overwrite file e in directory d (an overwritten file keeps its slot).
WriteFile(f, d, e) ==
    IF Lookup(f, d, Name(e)) # {}
    THEN [f EXCEPT ![d] = [i \in 1..Len(f[d]) |->
                              IF Name(f[d][i]) = Name(e) THEN e ELSE f[d][i]]]
    ELSE [f EXCEPT ![d] = Append(f[d], e)]

\* out_dir.mkdir(parents=True, exist_ok=True) for the directory stem inside d.
MkDir(f, d, stem) ==
    IF Join(d, stem) \in DOMAIN f THEN f
    ELSE [f EXCEPT ![d] = Append(f[d], Directory(stem, ""))] @@ (Join(d, stem) :> <<>>)

(***************************************************************************)
(* export_pdf                                                              *)
(***************************************************************************)
PageStem(pdf, i) == pdf.stem \o "_p" \o ToString(i)

PagePng(pdf, i) ==
    ImageFile(PageStem(pdf, i), ".png", TRUE, pdf.w, pdf.h, pdf.pngBytes)

PageAsset(d, pdf, i) ==
    [filename |-> Join(Join(d, pdf.stem), PageStem(pdf, i) \o ".png"),
     source |-> Name(pdf) \o "#page=" \o ToString(i + 1),
     description |-> <<"PNG " \o ToString(pdf.w) \o "x" \o ToString(pdf.h)
                        \o "px exported from " \o Name(pdf) \o " page "
                        \o ToString(i + 1)>>,
     width |-> pdf.w,
     height |-> pdf.h,
     sizeKB |-> PyRoundDiv(pdf.pngBytes, 1024),
     mimeType |-> "image/png"]

\* fitz.open or mkdir raises before any page is touched.
OpenFails(f, d, pdf) ==
    \/ pdf.kind # "file"
    \/ ~pdf.ok
    \/ (Exists(f, d, pdf.stem) /\ EntryAt(f, d, pdf.stem).kind # "dir")

\* Number of pages saved before the loop ends or get_pixmap raises.
PagesDone(pdf) == IF pdf.badPage = 0 THEN pdf.pages ELSE pdf.badPage - 1

RECURSIVE SavePages(_, _, _, _)
SavePages(f, out, pdf, n) ==
    IF n = 0 THEN f
    ELSE WriteFile(SavePages(f, out, pdf, n - 1), out, PagePng(pdf, n - 1))

\* The tree export_pdf leaves behind, whether or not it raised.
ExportFs(f, d, pdf) ==
    IF OpenFails(f, d, pdf) THEN f
    ELSE SavePages(MkDir(f, d, pdf.stem), Join(d, pdf.stem), pdf, PagesDone(pdf))

\* Faulty variant: the exception is swallowed and the walk goes on.
ExportNeverRaises(f, d, pdf) == FALSE

ExportRaises(f, d, pdf) == OpenFails(f, d, pdf) \/ pdf.badPage # 0

\* The list export_pdf returns.
ExportOutputs(d, pdf) == [i \in 1..pdf.pages |-> PageAsset(d, pdf, i - 1)]

(***************************************************************************)
(* catalog_images                                                          *)
(***************************************************************************)
\* Faulty variant: the extension is compared without lower().
IsImageCaseSensitive(e) == e.kind = "file" /\ e.ext \in SUPPORTED_IMG

IsImage(e) == e.kind = "file" /\ Lower(e.ext) \in SUPPORTED_IMG

ImageAsset(d, e) ==
    LET w == IF e.ok THEN e.w ELSE None
        h == IF e.ok THEN e.h ELSE None
    IN  [filename |-> Join(d, Name(e)),
         source |-> Name(e),
         description |->
             IF TruthyInt(w) /\ TruthyInt(h)
             THEN <<LStripDot(Upper(e.ext)) \o " " \o ToString(w) \o "x"
                    \o ToString(h) \o "px">>
             ELSE <<LStripDot(Upper(e.ext)) \o " image">>,
         width |-> w,
         height |-> h,
         sizeKB |-> PyRoundDiv(e.bytes, 1024),
         mimeType |-> "image/" \o LStripDot(Lower(e.ext))]

catalog_images(f, rev, d) ==
    LET found == SelectSeq(IterDir(f, rev, d), IsImage)
    IN  [i \in 1..Len(found) |-> ImageAsset(d, found[i])]

(***************************************************************************)
(* main: the directory list and the dedup                                  *)
(***************************************************************************)
IsDir(e) == e.kind = "dir"

\* Faulty variant: the root is walked after its child directories.
DirListRootLast(f, rev) ==
    LET kids == SelectSeq(IterDir(f, rev, Root), IsDir)
    IN  [i \in 1..Len(kids) |-> Join(Root, Name(kids[i]))] \o <<Root>>

DirList(f, rev) ==
    LET kids == SelectSeq(IterDir(f, rev, Root), IsDir)
    IN  <<Root>> \o [i \in 1..Len(kids) |-> Join(Root, Name(kids[i]))]

\* Faulty variant: the key is never added to seen.
RECURSIVE UniqForgets(_, _, _)
UniqForgets(todo, seen, uniq_assets) ==
    IF todo = <<>> THEN uniq_assets
    ELSE IF Head(todo).filename \in seen
         THEN UniqForgets(Tail(todo), seen, uniq_assets)
         ELSE UniqForgets(Tail(todo), seen, Append(uniq_assets, Head(todo)))

\* The seen/uniq_assets loop.
RECURSIVE Uniq(_, _, _)
Uniq(todo, seen, uniq_assets) ==
    IF todo = <<>> THEN uniq_assets
    ELSE IF Head(todo).filename \in seen
         THEN Uniq(Tail(todo), seen, uniq_assets)
         ELSE Uniq(Tail(todo), seen \cup {Head(todo).filename},
                   Append(uniq_assets, Head(todo)))

\* Faulty variant: the last descriptor of a filename wins.
DedupKeepsLast(list) == Reverse(Uniq(Reverse(list), {}, <<>>))

Dedup(list) == Uniq(list, {}, <<>>)

(***************************************************************************)
(* ensure_api_key.  A line of .env is a sequence of tokens: " " is white   *)
(* space, "=" the separator, "#" the comment mark, anything else a word.   *)
(***************************************************************************)
RECURSIVE Concat(_)
Concat(t) == IF t = <<>> THEN "" ELSE Head(t) \o Concat(Tail(t))

RECURSIVE LStrip(_)
LStrip(t) == IF t # <<>> /\ Head(t) = " " THEN LStrip(Tail(t)) ELSE t

Strip(t) == Reverse(LStrip(Reverse(LStrip(t))))

\* Index of the first "=" of the line, 0 when there is none.
FirstEq(t) ==
    IF \E i \in 1..Len(t) : t[i] = "="
    THEN CHOOSE i \in 1..Len(t) : t[i] = "=" /\ \A j \in 1..(i - 1) : t[j] # "="
    ELSE 0

EnvGet(env, k) == IF k \in DOMAIN env THEN env[k] ELSE NoneStr

\* os.environ.get("GEMINI_API_KEY") or os.environ.get("API_KEY")
KeyOf(env) == Or(EnvGet(env, "GEMINI_API_KEY"), EnvGet(env, "API_KEY"))

KeyNames == {"GEMINI_API_KEY", "API_KEY"}

\* Faulty variant: the key is stripped before it is compared.
LoadLineStripsKey(env, line) ==
    IF \/ line = <<>>
       \/ (Strip(line) # <<>> /\ Head(Strip(line)) = "#")
       \/ FirstEq(line) = 0
    THEN env
    ELSE LET k == Concat(Strip(SubSeq(line, 1, FirstEq(line) - 1)))
             v == Concat(Strip(SubSeq(line, FirstEq(line) + 1, Len(line))))
         IN  IF k \in KeyNames /\ v # "" THEN (k :> v) @@ env ELSE env

\* One pass of the loop body over a line of .env.
LoadLine(env, line) ==
    IF \/ line = <<>>
       \/ (Strip(line) # <<>> /\ Head(Strip(line)) = "#")
       \/ FirstEq(line) = 0
    THEN env
    ELSE LET k == Concat(SubSeq(line, 1, FirstEq(line) - 1))
             v == Concat(Strip(SubSeq(line, FirstEq(line) + 1, Len(line))))
         IN  IF k \in KeyNames /\ v # "" THEN (k :> v) @@ env ELSE env

RECURSIVE LoadLines(_, _)
LoadLines(env, lines) ==
    IF lines = <<>> THEN env ELSE LoadLines(LoadLine(env, Head(lines)), Tail(lines))

\* os.environ when ensure_api_key returns.
EnvAfter(env, file) ==
    IF TruthyStr(KeyOf(env)) THEN env
    ELSE IF file.exists THEN LoadLines(env, file.lines) ELSE env

ensure_api_key(env, file) ==
    IF TruthyStr(KeyOf(env)) THEN KeyOf(env) ELSE KeyOf(EnvAfter(env, file))

(***************************************************************************)
(* JSON values and the service's replies.  A JSON value is a record: t its *)
(* type, n the number (or the length of a list), o the members of an       *)
(* object, each a text.  A text part of a reply is a record: prose before  *)
(* the payload (prefix), a ``` fence around it (fenced), a language tag    *)
(* after the fence (tag), and the payload with whether json.loads takes it.*)
(***************************************************************************)
JNull == [t |-> "null", n |-> 0, o |-> <<>>]
JNum(n) == [t |-> "num", n |-> n, o |-> <<>>]
JList(len) == [t |-> "list", n |-> len, o |-> <<>>]
JObj(o) == [t |-> "obj", n |-> 0, o |-> o]

TruthyText(x) == \E i \in 1..Len(x) : x[i] # ""

\* Python's truth value of a parsed JSON value.
TruthyJson(v) ==
    CASE v.t = "null" -> FALSE
      [] v.t = "num" -> v.n # 0
      [] v.t = "list" -> v.n > 0
      [] v.t = "obj" -> DOMAIN v.o # {}

Chunk(prefix, fenced, tag, valid, value) ==
    [empty |-> FALSE, prefix |-> prefix, fenced |-> fenced, tag |-> tag,
     valid |-> valid, value |-> value]

EmptyChunk ==
    [empty |-> TRUE, prefix |-> FALSE, fenced |-> FALSE, tag |-> FALSE,
     valid |-> FALSE, value |-> JNull]

\* json.loads(candidate) behind the try: None on JSONDecodeError.
Loads(valid, value) == IF valid THEN [none |-> FALSE, value |-> value]
                       ELSE [none |-> TRUE, value |-> JNull]

\* extract_json: a text that starts with the fence is cut down to its payload,
\* the tag stripped; any other text is parsed whole.
extract_json(text) ==
    IF text.fenced /\ ~text.prefix
    THEN Loads(text.valid, text.value)
    ELSE Loads(text.valid /\ ~text.prefix /\ ~text.fenced /\ ~text.tag, text.value)

(***************************************************************************)
(* describe_asset_with_gemini.  A response of the service: net is how the  *)
(* HTTP exchange ended, valid whether the body is JSON, isObj whether that *)
(* JSON is an object, candidates its "candidates" member (<<>> when absent *)
(* or empty); a candidate is the list of its content's parts (<<>> when it *)
(* has no content), each part the text it carries.                         *)
(***************************************************************************)
Response(net, valid, isObj, candidates) ==
    [net |-> net, valid |-> valid, isObj |-> isObj, candidates |-> candidates]

EnrichFields == <<"recommendedUse", "layoutHints", "colorPalette", "copyGuidance">>

Get(o, k) == IF k \in DOMAIN o THEN o[k] ELSE <<>>
Has(a, k) == k \in DOMAIN a /\ TruthyText(a[k])

\* Faulty variant: the member is copied whenever the reply has it, empty or not.
CopyFieldAlways(a, o, src, dst) ==
    IF src \in DOMAIN o THEN (dst :> o[src]) @@ a ELSE a

\* asset[dst] = response_json[src] when response_json.get(src) is truthy.
CopyField(a, o, src, dst) ==
    IF TruthyText(Get(o, src)) THEN (dst :> o[src]) @@ a ELSE a

RECURSIVE CopyFields(_, _, _)
CopyFields(a, o, fields) ==
    IF fields = <<>> THEN a
    ELSE CopyFields(CopyField(a, o, Head(fields), Head(fields)), o, Tail(fields))

\* Lines 145-149: the asset after a reply that parsed to the object o.
ApplyReply(a, o) == CopyFields(CopyField(a, o, "summary", "description"), o, EnrichFields)

IsText(part) == ~part.empty

\* "".join(text_chunks); the replies explored carry their text in one part.
JoinChunks(chunks) == IF Len(chunks) = 1 THEN chunks[1]
                      ELSE Chunk(TRUE, FALSE, FALSE, FALSE, JNull)

Returned(a, log) == [asset |-> a, log |-> log, raises |-> FALSE]
Raised(a, log) == [asset |-> a, log |-> log, raises |-> TRUE]

Analyzing(a) == "[info] Analyzing " \o a.filename \o " via Gemini..."

\* Lines 130-151, entered with the parsed payload.
HandlePayload(a, r) ==
    IF ~r.isObj THEN Raised(a, <<Analyzing(a)>>)
    ELSE IF r.candidates = <<>>
    THEN Returned(a, <<Analyzing(a),
                       "[warn] Gemini returned no candidates for " \o a.filename>>)
    ELSE LET text_chunks == SelectSeq(r.candidates[1], IsText)
         IN  IF text_chunks = <<>>
             THEN Returned(a, <<Analyzing(a),
                                "[warn] Gemini response missing text for " \o a.filename>>)
             ELSE LET response_json == extract_json(JoinChunks(text_chunks))
                  IN  IF response_json.none \/ ~TruthyJson(response_json.value)
                      THEN Returned(a, <<Analyzing(a),
                                         "[warn] Failed to parse Gemini JSON for "
                                             \o a.filename>>)
                      ELSE IF response_json.value.t # "obj"
                      THEN Raised(a, <<Analyzing(a)>>)
                      ELSE Returned(ApplyReply(a, response_json.value.o),
                                    <<Analyzing(a), "[info] Completed " \o a.filename>>)

\* present: asset_path.exists(); r: what the service answers.
describe_asset_with_gemini(a, present, r) ==
    IF ~present
    THEN Returned(a, <<"[warn] Asset not found for Gemini analysis: " \o a.filename>>)
    ELSE IF r.net = "http_error"
    THEN Returned(a, <<Analyzing(a), "[warn] Gemini HTTP error for " \o a.filename>>)
    ELSE IF r.net # "ok" \/ ~r.valid
    THEN Returned(a, <<Analyzing(a), "[warn] Gemini request failed for " \o a.filename>>)
    ELSE HandlePayload(a, r)

(***************************************************************************)
(* The narrative file: prompt_lines joined with "\n".                      *)
(***************************************************************************)
RootPath == "/srv/template-new"
Brand == "Template"

Header ==
    << <<"Template Root: " \o RootPath>>,
       <<"Brand: " \o Brand>>,
       <<>>,
       <<"Usage guidance:">>,
       <<"- Template/background assets = base layer. Do NOT replace or ignore them.">>,
       <<"- Logo assets must be used as provided (top corner, padding).">>,
       <<"- Use user copy verbatim; no translation/rewrites.">>,
       <<"- Use relative placement descriptions; avoid numeric coordinates.">>,
       <<"- Return plain text (no Markdown/JSON) when drafting prompts.">>,
       <<>>,
       <<"Assets:">> >>

DimsClause(a) == ", " \o ToString(a.width) \o "x" \o ToString(a.height) \o "px"
SizeClause(a) == ", ~" \o ToString(a.sizeKB) \o "KB"

Clause(a, field, label) == IF Has(a, field) THEN <<label>> \o a[field] ELSE <<>>

\* Lines 255-268: the line of one asset.
AssetLine(a) ==
    <<"- " \o a.filename \o " (source: " \o a.source>>
    \o (IF TruthyInt(a.width) /\ TruthyInt(a.height) THEN <<DimsClause(a)>> ELSE <<>>)
    \o (IF TruthyInt(a.sizeKB) THEN <<SizeClause(a)>> ELSE <<>>)
    \o <<") :: ">> \o a.description
    \o Clause(a, "recommendedUse", " | Recommended use: ")
    \o Clause(a, "layoutHints", " | Layout: ")
    \o Clause(a, "colorPalette", " | Colors: ")
    \o Clause(a, "copyGuidance", " | Copy: ")

PromptLines(list) == Header \o [i \in 1..Len(list) |-> AssetLine(list[i])]

\* "\n".join(prompt_lines)
RECURSIVE JoinLines(_)
JoinLines(lines) ==
    IF lines = <<>> THEN <<>>
    ELSE IF Len(lines) = 1 THEN lines[1]
    ELSE Head(lines) \o <<"\n">> \o JoinLines(Tail(lines))

(***************************************************************************)
(* The inputs explored: directory trees, environments, .env files and      *)
(* service responses.                                                      *)
(***************************************************************************)
FlyerOpts ==
    {[q |-> "good", pages |-> n] : n \in 1..MaxPages}
        \cup {[q |-> "unopenable", pages |-> 1], [q |-> "badpage", pages |-> MaxPages]}

Trees == [flyer : FlyerOpts, logo : {"ok", "corrupt", "tiny"}, stale : BOOLEAN,
          child : {"none", "c", "cbad"}]

Logo(kind) ==
    CASE kind = "ok" -> ImageFile("logo", ".png", TRUE, 64, 64, 10240)
      [] kind = "corrupt" -> ImageFile("logo", ".png", FALSE, None, None, 700)
      [] kind = "tiny" -> ImageFile("logo", ".png", TRUE, 1, 1, 100)

\* flyer.pdf, logo.png, a text file and an upper-case .PDF in the root; with
\* stale, the directory flyer/ left by an earlier export; with child, a directory
\* c/ holding a PDF, an upper-case image, a directory named like an image and a
\* directory whose image lies too deep to be scanned.
TreeFs(t) ==
    (Root :> (<<PdfFile("flyer", t.flyer.q, t.flyer.pages), Logo(t.logo),
                OtherFile("notes", ".txt"), OtherFile("OLD", ".PDF")>>
              \o (IF t.stale THEN <<Directory("flyer", "")>> ELSE <<>>)
              \o (IF t.child # "none" THEN <<Directory("c", "")>> ELSE <<>>)))
    @@ (IF t.stale
        THEN "flyer" :> <<ImageFile("cover", ".JPG", TRUE, 800, 600, 512),
                          ImageFile("flyer_p0", ".png", TRUE, 10, 10, 2000)>>
        ELSE <<>>)
    @@ (IF t.child # "none"
        THEN ("c" :> <<Directory("deep", ""),
                       PdfFile("x", IF t.child = "c" THEN "good" ELSE "unopenable", 1),
                       ImageFile("pic", ".WEBP", TRUE, 320, 200, 1536),
                       Directory("thumbs", ".png"),
                       OtherFile("readme", ".txt")>>)
             @@ ("c/deep" :> <<ImageFile("hidden", ".png", TRUE, 5, 5, 900)>>)
             @@ ("c/thumbs.png" :> <<>>)
        ELSE <<>>)

\* The largest catalog a run over the tree can end with.
PlannedAssets(t) ==
    IF t.flyer.q # "good" \/ t.child = "cbad" THEN 0
    ELSE t.flyer.pages + 1 + (IF t.stale THEN 1 ELSE 0) + (IF t.child # "none" THEN 2 ELSE 0)

NoEnv == <<>>

JunkLines ==
    << <<>>,
       <<"#", " ", "GEMINI_API_KEY", "=", "old">>,
       <<"GEMINI_API_KEY">>,
       <<" ", "API_KEY", "=", "indented">>,
       <<"API_KEY", "=", " ">>,
       <<"OTHER", "=", "value">> >>

NoDotEnv == [exists |-> FALSE, lines |-> <<>>]
DotEnv(lines) == [exists |-> TRUE, lines |-> lines]

\* The environment the script is started with, and the .env file.
Credentials ==
    {[env |-> NoEnv, file |-> NoDotEnv],
     [env |-> NoEnv, file |-> DotEnv(JunkLines)],
     [env |-> "GEMINI_API_KEY" :> "", file |-> DotEnv(JunkLines)],
     [env |-> "API_KEY" :> "alt-key", file |-> NoDotEnv],
     [env |-> NoEnv,
      file |-> DotEnv(JunkLines
                      \o << <<"GEMINI_API_KEY", "=", " ", "file", "=", "key", " ">> >>)]}

FullReply ==
    JObj([summary |-> <<"Blue wave motif">>, recommendedUse |-> <<"Cover pages">>,
          layoutHints |-> <<"Keep margins">>, colorPalette |-> <<"Navy and teal">>,
          copyGuidance |-> <<"Headline top left">>])

PartialReply ==
    JObj([summary |-> <<>>, recommendedUse |-> <<"Event banners">>,
          colorPalette |-> <<>>, copyGuidance |-> <<"Short headline">>])

MultiLineReply ==
    JObj([summary |-> <<"Split layout", "\n", "with photo">>,
          colorPalette |-> <<"Warm tones">>])

Candidate(text) == << <<text>> >>

Responses ==
    {Response("http_error", FALSE, FALSE, <<>>),
     Response("url_error", FALSE, FALSE, <<>>),
     Response("ok", FALSE, FALSE, <<>>),
     Response("ok", TRUE, FALSE, <<>>),
     Response("ok", TRUE, TRUE, <<>>),
     Response("ok", TRUE, TRUE, << <<>> >>),
     Response("ok", TRUE, TRUE, << <<EmptyChunk>> >>),
     Response("ok", TRUE, TRUE, Candidate(Chunk(FALSE, FALSE, FALSE, FALSE, JNull))),
     Response("ok", TRUE, TRUE, Candidate(Chunk(TRUE, TRUE, TRUE, TRUE, FullReply))),
     Response("ok", TRUE, TRUE, Candidate(Chunk(FALSE, FALSE, FALSE, TRUE, JNull))),
     Response("ok", TRUE, TRUE, Candidate(Chunk(FALSE, FALSE, FALSE, TRUE, JObj(<<>>)))),
     Response("ok", TRUE, TRUE, Candidate(Chunk(FALSE, FALSE, FALSE, TRUE, JList(2)))),
     Response("ok", TRUE, TRUE, Candidate(Chunk(FALSE, TRUE, TRUE, TRUE, JNum(42)))),
     Response("ok", TRUE, TRUE, Candidate(Chunk(FALSE, TRUE, TRUE, TRUE, FullReply))),
     Response("ok", TRUE, TRUE, Candidate(Chunk(FALSE, FALSE, FALSE, TRUE, PartialReply))),
     Response("ok", TRUE, TRUE, <<<<EmptyChunk, Chunk(FALSE, TRUE, FALSE, TRUE, MultiLineReply)>>>>)}

(***************************************************************************)
(* The state machine.                                                      *)
(***************************************************************************)
Init ==
    /\ \E t \in Trees, c \in Credentials :
          /\ TruthyStr(ensure_api_key(c.env, c.file)) => PlannedAssets(t) <= MaxEnriched
          /\ fs = TreeFs(t)
          /\ shell_env = c.env
          /\ environ = c.env
          /\ dotenv = c.file
    /\ reverse \in BOOLEAN
    /\ pc = "start"
    /\ error = ""
    /\ run = 1
    /\ dirs = <<>>
    /\ di = 0
    /\ pdfs = <<>>
    /\ raw = <<>>
    /\ assets = <<>>
    /\ built = <<>>
    /\ gemini_key = NoneStr
    /\ ei = 0
    /\ requests = <<>>
    /\ stderr = <<>>
    /\ stdout = <<>>
    /\ prompt_template = NoFile

\* main, lines 207-211: the catalog is created and the directory list is taken.
Start ==
    /\ pc = "start"
    /\ dirs' = DirList(fs, reverse)
    /\ di' = 1
    /\ pdfs' = Glob(fs, reverse, Root)
    /\ raw' = <<>>
    /\ pc' = "walk"
    /\ UNCHANGED <<fs, reverse, shell_env, environ, dotenv, error, run, assets, built,
                   gemini_key, ei, requests, stderr, stdout, prompt_template>>

\* main, lines 215-218: export_pdf on the next PDF of dirs[di]; an exception is not
\* caught and ends the run.
ExportPdf ==
    /\ pc = "walk"
    /\ pdfs # <<>>
    /\ LET d == dirs[di]
           pdf == Head(pdfs)
       IN  /\ fs' = ExportFs(fs, d, pdf)
           /\ IF ExportRaises(fs, d, pdf)
              THEN /\ pc' = "aborted"
                   /\ error' = "export_pdf"
                   /\ UNCHANGED <<raw, pdfs>>
              ELSE /\ raw' = raw \o ExportOutputs(d, pdf)
                   /\ pdfs' = Tail(pdfs)
                   /\ UNCHANGED <<pc, error>>
    /\ UNCHANGED <<reverse, shell_env, environ, dotenv, run, dirs, di, assets, built,
                   gemini_key, ei, requests, stderr, stdout, prompt_template>>

\* main, line 220 and the step of the loop of line 213.
CatalogImages ==
    /\ pc = "walk"
    /\ pdfs = <<>>
    /\ raw' = raw \o catalog_images(fs, reverse, dirs[di])
    /\ IF di < Len(dirs)
       THEN /\ di' = di + 1
            /\ pdfs' = Glob(fs, reverse, dirs[di + 1])
            /\ UNCHANGED pc
       ELSE /\ pc' = "dedup"
            /\ UNCHANGED <<di, pdfs>>
    /\ UNCHANGED <<fs, reverse, shell_env, environ, dotenv, error, run, dirs, assets,
                   built, gemini_key, ei, requests, stderr, stdout, prompt_template>>

\* main, lines 222-231.
RemoveDuplicates ==
    /\ pc = "dedup"
    /\ assets' = Dedup(raw)
    /\ built' = Append(built, Dedup(raw))
    /\ pc' = "key"
    /\ UNCHANGED <<fs, reverse, shell_env, environ, dotenv, error, run, dirs, di, pdfs,
                   raw, gemini_key, ei, requests, stderr, stdout, prompt_template>>

\* main, lines 233-238: the credential is resolved; without one the warning is
\* printed and the loop is skipped.
ResolveKey ==
    /\ pc = "key"
    /\ gemini_key' = ensure_api_key(environ, dotenv)
    /\ environ' = EnvAfter(environ, dotenv)
    /\ IF TruthyStr(ensure_api_key(environ, dotenv))
       THEN /\ ei' = 1
            /\ pc' = IF assets = <<>> THEN "render" ELSE "enrich"
            /\ UNCHANGED stderr
       ELSE /\ stderr' = Append(stderr,
                                "[warn] GEMINI_API_KEY not found; skipping asset summaries.")
            /\ pc' = "render"
            /\ UNCHANGED ei
    /\ UNCHANGED <<fs, reverse, shell_env, dotenv, error, run, dirs, di, pdfs, raw, assets,
                   built, requests, stdout, prompt_template>>

\* main, lines 235-236: one call of describe_asset_with_gemini.
Describe ==
    /\ pc = "enrich"
    /\ \E present \in BOOLEAN, r \in Responses :
          LET out == describe_asset_with_gemini(assets[ei], present, r)
          IN  /\ requests' = Append(requests, assets[ei].filename)
              /\ stderr' = stderr \o out.log
              /\ assets' = [assets EXCEPT ![ei] = out.asset]
              /\ IF out.raises
                 THEN /\ pc' = "aborted"
                      /\ error' = "AttributeError"
                      /\ UNCHANGED ei
                 ELSE /\ ei' = ei + 1
                      /\ pc' = IF ei = Len(assets) THEN "render" ELSE "enrich"
                      /\ UNCHANGED error
    /\ UNCHANGED <<fs, reverse, shell_env, environ, dotenv, run, dirs, di, pdfs, raw,
                   built, gemini_key, stdout>>
    /\ UNCHANGED prompt_template

\* main, lines 240-271: prompt_template.txt is written into the root.
Render ==
    /\ pc = "render"
    /\ prompt_template' = JoinLines(PromptLines(assets))
    /\ fs' = WriteFile(fs, Root, OtherFile("prompt_template", ".txt"))
    /\ pc' = "print"
    /\ UNCHANGED <<reverse, shell_env, environ, dotenv, error, run, dirs, di, pdfs, raw,
                   assets, built, gemini_key, ei, requests, stderr, stdout>>

\* main, line 273.
PrintCatalog ==
    /\ pc = "print"
    /\ stdout' = Append(stdout, [brand |-> Brand, root |-> RootPath, assets |-> assets])
    /\ pc' = "done"
    /\ UNCHANGED <<fs, reverse, shell_env, environ, dotenv, error, run, dirs, di, pdfs,
                   raw, assets, built, gemini_key, ei, requests, stderr,
                   prompt_template>>

\* The script is started again on the tree the finished run left: a new process
\* with the starting environment and empty output channels.
Rerun ==
    /\ pc = "done"
    /\ run < MaxRuns
    /\ run' = run + 1
    /\ environ' = shell_env
    /\ pc' = "start"
    /\ dirs' = <<>>
    /\ di' = 0
    /\ pdfs' = <<>>
    /\ raw' = <<>>
    /\ assets' = <<>>
    /\ gemini_key' = NoneStr
    /\ ei' = 0
    /\ requests' = <<>>
    /\ stderr' = <<>>
    /\ stdout' = <<>>
    /\ prompt_template' = NoFile
    /\ UNCHANGED <<fs, reverse, shell_env, dotenv, error, built>>

Next ==
    \/ Start
    \/ ExportPdf
    \/ CatalogImages
    \/ RemoveDuplicates
    \/ ResolveKey
    \/ Describe
    \/ Render
    \/ PrintCatalog
    \/ Rerun

Spec == Init /\ [][Next]_vars

(***************************************************************************)
(* Vocabulary of the properties.                                           *)
(***************************************************************************)
Range(s) == {s[i] : i \in 1..Len(s)}

\* The dedup of the current run has run.
Deduped ==
    \/ pc \in {"key", "enrich", "render", "print", "done"}
    \/ (pc = "aborted" /\ error = "AttributeError")

\* The catalog of the current run as it left the dedup, before any enrichment.
Pre == built[Len(built)]

\* Positions of the list that no earlier position shares its filename with.
FirstPositions(list) ==
    {i \in 1..Len(list) : \A j \in 1..(i - 1) : list[j].filename # list[i].filename}

RECURSIVE Pick(_, _, _)
Pick(list, keep, i) ==
    IF i > Len(list) THEN <<>>
    ELSE (IF i \in keep THEN <<list[i]>> ELSE <<>>) \o Pick(list, keep, i + 1)

NamesOf(list) == [i \in 1..Len(list) |-> list[i].filename]

Positions(list, filename) == {i \in 1..Len(list) : list[i].filename = filename}

\* The descriptor the PDF Extractor makes for page i (counted from 0) of pdf in d.
ByExtractor(a, d, pdf, i) ==
    /\ a.filename = Join(Join(d, pdf.stem), pdf.stem \o "_p" \o ToString(i) \o ".png")
    /\ a.source = pdf.stem \o ".pdf#page=" \o ToString(i + 1)

\* The descriptor the Image Enumerator makes for the file e of d.
ByEnumerator(a, d, e) ==
    /\ a.filename = Join(d, e.stem \o e.ext)
    /\ a.source = e.stem \o e.ext

PdfsIn(d) == {e \in Range(fs[d]) : e.ext = ".pdf"}

ImagesIn(d) ==
    {e \in Range(fs[d]) :
        e.kind = "file" /\ e.ext \in {".png", ".jpg", ".jpeg", ".webp",
                                      ".PNG", ".JPG", ".JPEG", ".WEBP"}}

FromExtractor(a) ==
    \E d \in Range(dirs) : \E pdf \in PdfsIn(d) : \E i \in 0..(pdf.pages - 1) :
        ByExtractor(a, d, pdf, i)

FromEnumerator(a) ==
    \E d \in Range(dirs) : \E e \in ImagesIn(d) : ByEnumerator(a, d, e)

(***************************************************************************)
(* C1: the finished catalog's asset list is the subsequence of the raw     *)
(* list made of the first occurrence of every filename, in the raw list's  *)
(* order, so no two assets of it share a filename.                         *)
(***************************************************************************)
C1_FirstOccurrences ==
    Deduped =>
        /\ Pre = Pick(raw, FirstPositions(raw), 1)
        /\ NamesOf(assets) = NamesOf(Pre)
        /\ \A i, j \in 1..Len(assets) :
              assets[i].filename = assets[j].filename => i = j

\* A finished run whose raw list held a filename twice.
C1_Witness ==
    /\ pc = "done"
    /\ Len(assets) < Len(raw)
    /\ \E i, j \in 1..Len(raw) : i < j /\ raw[i].filename = raw[j].filename

(***************************************************************************)
(* C2: when the PNG of a page rasterized in this run is also found by the  *)
(* Image Enumerator in this run, the catalog holds one descriptor of that  *)
(* filename and it is the extractor's; the tree of one 2-page PDF and one  *)
(* image gives 3 assets on the rerun.                                      *)
(***************************************************************************)
TwoPagesAndLogo ==
    /\ DOMAIN fs = {Root, "flyer"}
    /\ \E pdf \in PdfsIn(Root) : pdf.pages = 2
    /\ Cardinality(ImagesIn("flyer")) = 2

C2_ExtractorWins ==
    Deduped =>
        /\ \A i, j \in 1..Len(raw) :
              (/\ FromExtractor(raw[i])
               /\ FromEnumerator(raw[j])
               /\ raw[i].filename = raw[j].filename)
              => /\ Cardinality(Positions(assets, raw[i].filename)) = 1
                 /\ \A k \in Positions(assets, raw[i].filename) :
                       /\ assets[k].source = raw[i].source
                       /\ Pre[k] = raw[i]
        /\ (run = 2 /\ TwoPagesAndLogo) => Len(assets) = 3

\* The rerun over flyer.pdf (2 pages) and logo.png: 5 raw descriptors, 3 assets.
C2_Witness ==
    /\ pc = "done"
    /\ run = 2
    /\ TwoPagesAndLogo
    /\ Len(raw) = 5
    /\ Len(assets) = 3
    /\ \E i, j \in 1..Len(raw) :
          /\ FromExtractor(raw[i])
          /\ FromEnumerator(raw[j])
          /\ raw[i].filename = raw[j].filename

(***************************************************************************)
(* C3: a second build over the tree the first build left gives the same    *)
(* asset list, enrichment aside, in content and in order.                  *)
(***************************************************************************)
C3_Idempotent ==
    \A k \in 1..(Len(built) - 1) : built[k + 1] = built[k]

\* A second build that scanned a directory the first build created and found
\* the exported pages there.
C3_Witness ==
    /\ Len(built) = 2
    /\ Len(dirs) > 1
    /\ Len(raw) > Len(built[2])
    /\ built[1] # <<>>

(***************************************************************************)
(* C9: before the dedup the raw list holds one extractor descriptor for    *)
(* every page of every PDF directly inside a scanned directory and one     *)
(* enumerator descriptor for every supported image file directly inside a  *)
(* scanned directory, undecodable ones included (width and height None),   *)
(* and nothing else; the scanned directories are the root and the child    *)
(* directories it had when the run started.                                *)
(***************************************************************************)
Collected == pc = "dedup" \/ Deduped

\* The run has taken its directory list and exported nothing yet.
JustStarted == pc = "walk" /\ di = 1 /\ Len(pdfs) = Cardinality(PdfsIn(Root))

ChildDirs == {e.stem \o e.ext : e \in {x \in Range(fs[Root]) : x.kind = "dir"}}

C9_Complete ==
    /\ JustStarted => Head(dirs) = Root /\ Range(Tail(dirs)) = ChildDirs
    /\ Collected =>
        /\ Head(dirs) = Root
        /\ Range(Tail(dirs)) \subseteq ChildDirs
        /\ \A d \in Range(dirs) : \A pdf \in PdfsIn(d) : \A i \in 0..(pdf.pages - 1) :
              Cardinality({k \in 1..Len(raw) : ByExtractor(raw[k], d, pdf, i)}) = 1
        /\ \A d \in Range(dirs) : \A e \in ImagesIn(d) :
              /\ Cardinality({k \in 1..Len(raw) : ByEnumerator(raw[k], d, e)}) = 1
              /\ ~e.ok => \E k \in 1..Len(raw) :
                    /\ ByEnumerator(raw[k], d, e)
                    /\ raw[k].width = None /\ raw[k].height = None
        /\ \A k \in 1..Len(raw) : FromExtractor(raw[k]) \/ FromEnumerator(raw[k])

\* A collected list with a page of a PDF of a child directory, an undecodable
\* image recorded without dimensions, and an image lying too deep to be listed.
C9_Witness ==
    /\ pc = "dedup"
    /\ \E k \in 1..Len(raw) : raw[k].filename = "c/x/x_p0.png"
    /\ \E k \in 1..Len(raw) : raw[k].filename = "logo.png" /\ raw[k].width = None
    /\ \E k \in 1..Len(raw) : raw[k].filename = "c/pic.WEBP"
    /\ "c/deep" \in DOMAIN fs /\ ImagesIn("c/deep") # {}
    /\ \A k \in 1..Len(raw) : raw[k].filename # "c/deep/hidden.png"

(***************************************************************************)
(* C4: whatever a single enrichment attempt runs into, the call returns,   *)
(* the attempt is made for every later asset and the run writes the        *)
(* narrative file and the structured catalog.                              *)
(***************************************************************************)
Resolvable == TruthyStr(ensure_api_key(shell_env, dotenv))

C4_EnrichmentNeverFatal ==
    /\ error # "AttributeError"
    /\ (pc \in {"render", "print", "done"} /\ Resolvable) => requests = NamesOf(assets)
    /\ (pc = "done") => Len(stdout) = 1 /\ prompt_template # NoFile

(***************************************************************************)
(* C5: an asset whose enrichment was skipped or failed equals its          *)
(* descriptor before the enrichment phase; after a successful enrichment   *)
(* the description is the reply's summary when that is non-empty and is    *)
(* unchanged otherwise, each enrichment field is set exactly when the      *)
(* reply has it non-empty, and filename, source, width, height, sizeKB and *)
(* mimeType are unchanged.                                                 *)
(***************************************************************************)
BaseFields == {"filename", "source", "width", "height", "sizeKB", "mimeType"}

ReplyObjects == {FullReply.o, PartialReply.o, MultiLineReply.o}

NonEmpty(o, k) == k \in DOMAIN o /\ o[k] # <<>>

Explains(before, after, o) ==
    /\ DOMAIN after \subseteq BaseFields \cup {"description"} \cup Range(EnrichFields)
    /\ \A f \in BaseFields : after[f] = before[f]
    /\ after.description = IF NonEmpty(o, "summary") THEN o.summary
                           ELSE before.description
    /\ \A f \in Range(EnrichFields) :
          IF NonEmpty(o, f) THEN f \in DOMAIN after /\ after[f] = o[f]
          ELSE f \notin DOMAIN after

Completed(a) == ("[info] Completed " \o a.filename) \in Range(stderr)

C5_NonDestructive ==
    Deduped =>
        /\ Len(assets) = Len(Pre)
        /\ \A i \in 1..Len(assets) :
              IF Completed(assets[i])
              THEN \E o \in ReplyObjects : Explains(Pre[i], assets[i], o)
              ELSE assets[i] = Pre[i]

\* A finished run with one asset whose reply did not parse, left as it was, and
\* one enriched from a reply with an empty summary and two of the four fields.
C5_Witness ==
    /\ pc = "done"
    /\ \E i, j \in 1..Len(assets) :
          /\ ("[warn] Failed to parse Gemini JSON for " \o assets[j].filename)
                \in Range(stderr)
          /\ assets[j] = Pre[j]
          /\ Completed(assets[i])
          /\ assets[i].description = Pre[i].description
          /\ "recommendedUse" \in DOMAIN assets[i]
          /\ "layoutHints" \notin DOMAIN assets[i]
          /\ "colorPalette" \notin DOMAIN assets[i]

(***************************************************************************)
(* C6: when a PDF found in the scanned directories cannot be opened or     *)
(* rasterized the run ends there: no enrichment call is issued, nothing is *)
(* written to the primary output channel and prompt_template.txt is not    *)
(* written.                                                                *)
(***************************************************************************)
BadPdf(e) == e.ext = ".pdf" /\ (~e.ok \/ e.badPage # 0)

HasBadPdf ==
    \E d \in {Root} \cup (ChildDirs \cap DOMAIN fs) : \E e \in Range(fs[d]) : BadPdf(e)

C6_FailFast ==
    /\ HasBadPdf =>
          /\ requests = <<>>
          /\ stdout = <<>>
          /\ prompt_template = NoFile
          /\ ~Exists(fs, Root, "prompt_template.txt")
          /\ pc \in {"start", "walk", "aborted"}
    /\ error = "export_pdf" => HasBadPdf /\ pc = "aborted" /\ ~ENABLED Next

\* A run with a resolvable credential ended by a PDF of a child directory, after
\* the root's PDF was exported and its images were listed.
C6_Witness ==
    /\ pc = "aborted"
    /\ error = "export_pdf"
    /\ Resolvable
    /\ raw # <<>>
    /\ Exists(fs, "flyer", "flyer_p0.png")

(***************************************************************************)
(* C7: the narrative holds, after the header and guidance block, one line  *)
(* per asset in catalog order; the line carries the asset's filename and a *)
(* clause for each populated enrichment field and for no other.            *)
(***************************************************************************)
RECURSIVE SplitLines(_)
SplitLines(text) ==
    IF \A i \in 1..Len(text) : text[i] # "\n" THEN <<text>>
    ELSE LET i == CHOOSE k \in 1..Len(text) :
                     text[k] = "\n" /\ \A j \in 1..(k - 1) : text[j] # "\n"
         IN  <<SubSeq(text, 1, i - 1)>> \o SplitLines(SubSeq(text, i + 1, Len(text)))

Labels == [recommendedUse |-> " | Recommended use: ", layoutHints |-> " | Layout: ",
           colorPalette |-> " | Colors: ", copyGuidance |-> " | Copy: "]

LineStart(a) == "- " \o a.filename \o " (source: " \o a.source

Rendered == pc \in {"print", "done"}

C7_OneLinePerAsset ==
    Rendered =>
        LET lines == SplitLines(prompt_template)
        IN  /\ Len(lines) = Len(Header) + Len(assets)
            /\ SubSeq(lines, 1, Len(Header)) = Header
            /\ \A i \in 1..Len(assets) :
                  LET line == lines[Len(Header) + i]
                  IN  /\ line # <<>>
                      /\ line[1] = LineStart(assets[i])
                      /\ \A f \in DOMAIN Labels :
                            (Labels[f] \in Range(line)) <=> Has(assets[i], f)

(***************************************************************************)
(* C8: without a resolvable credential no enrichment attempt is made, the  *)
(* missing-credential warning is printed once, every descriptor keeps its  *)
(* generated description and has no enrichment field, and the narrative    *)
(* file and the structured catalog are produced.                           *)
(***************************************************************************)
MatchingEntry(line) ==
    /\ Len(line) > 2
    /\ line[1] \in {"GEMINI_API_KEY", "API_KEY"}
    /\ line[2] = "="
    /\ \E j \in 3..Len(line) : line[j] # " "

NoCredential ==
    /\ DOMAIN shell_env = {}
    /\ ~(dotenv.exists /\ \E i \in 1..Len(dotenv.lines) : MatchingEntry(dotenv.lines[i]))

MissingKeyWarnings ==
    {i \in 1..Len(stderr) :
        stderr[i] = "[warn] GEMINI_API_KEY not found; skipping asset summaries."}

C8_NoCredential ==
    NoCredential =>
        /\ requests = <<>>
        /\ pc # "enrich"
        /\ pc = "aborted" => error = "export_pdf" /\ HasBadPdf
        /\ pc \notin {"done", "aborted"} => ENABLED Next
        /\ Cardinality(MissingKeyWarnings) =
              (IF pc \in {"render", "print", "done"} THEN 1 ELSE 0)
        /\ Deduped =>
              /\ assets = Pre
              /\ \A i \in 1..Len(assets) :
                    DOMAIN assets[i] \cap Range(EnrichFields) = {}
        /\ pc = "done" =>
              /\ stdout = <<[brand |-> Brand, root |-> RootPath, assets |-> Pre]>>
              /\ prompt_template # NoFile
              /\ Exists(fs, Root, "prompt_template.txt")
              /\ Len(SplitLines(prompt_template)) = Len(Header) + Len(Pre)

\* A finished run that read a .env file without a usable entry.
C8_Witness ==
    /\ pc = "done"
    /\ NoCredential
    /\ dotenv.exists
    /\ Len(assets) >= 3
    /\ stderr = <<"[warn] GEMINI_API_KEY not found; skipping asset summaries.">>

(***************************************************************************)
(* C10: the line of an asset has the dimensions clause exactly when width  *)
(* and height are known and the size clause exactly when sizeKB has a      *)
(* value, 0 included.                                                      *)
(***************************************************************************)
LineOf(a) ==
    CHOOSE l \in Range(SplitLines(prompt_template)) : l # <<>> /\ l[1] = LineStart(a)

C10_ClausesWhenKnown ==
    Rendered =>
        \A i \in 1..Len(assets) :
            /\ (DimsClause(assets[i]) \in Range(LineOf(assets[i])))
                  <=> (assets[i].width # None /\ assets[i].height # None)
            /\ (SizeClause(assets[i]) \in Range(LineOf(assets[i])))
                  <=> (assets[i].sizeKB # None)

====
